---- MODULE Spec2Model ----
(***************************************************************************)
(* Export job pipeline (apps/export_data) and knowledge base embedding     *)
(* pipeline (apps/knowledge_base) of safelift-ai.                          *)
(*                                                                         *)
(* The module holds several state machines over one set of variables: the  *)
(* export service on one job (Spec, SpecRun), the exporters as a function  *)
(* of their context and source rows (SpecExporter), the retention sweep    *)
(* over a table of jobs (SpecCleanup), the embedding processor on one      *)
(* entry (SpecKB), two overlapping processors on one entry (SpecRace), the *)
(* entry endpoints with their validators (SpecEdit, SpecMeta) and the      *)
(* vector search (SpecSearch).  Each leaves the variables of the others    *)
(* unchanged.                                                              *)
(*                                                                         *)
(* The model follows one export job through the service layer.  Its state  *)
(* is the job's row in the `exports` table, the clock that timezone.now()  *)
(* reads, the in-memory Export instance a run_export call holds between    *)
(* its first save() (PROCESSING) and its last one, and the outcome of the  *)
(* last service call.  Every service method other than run_export acts on  *)
(* an instance freshly loaded from the table (as the views do through      *)
(* get_object()) and is one atomic step; run_export is two steps, because  *)
(* its PROCESSING row is persisted before the exporter is invoked; reads   *)
(* and retry requests arrive in between, while the direct status writers   *)
(* (update_progress, mark_completed, mark_failed) are not called on a job  *)
(* that a run is working on (spec section 5: one writer per job).          *)
(* Model.save() writes every column of the instance.  The database itself  *)
(* is taken to be reliable: save() does not raise.  `files` is the set of  *)
(* paths under <media_root>/exports/ at which a file exists: an exporter   *)
(* leaves there the file it returned or had opened when it raised, and     *)
(* retention outside the service can remove it.                            *)
(*                                                                         *)
(* Nullable values are sequences of length at most one: <<>> is NULL or    *)
(* None, <<v>> is the value v.                                             *)
(***************************************************************************)
EXTENDS Integers, Sequences, FiniteSets, TLC

\* ------------------------------------------------------------------ bounds
MaxTime == 1
MaxSize == 1
MaxRows == 3
MaxAge == 3

\* --------------------------------------------------------------- constants
MIN_DATE_RANGE_DAYS == 1
MAX_DATE_RANGE_DAYS == 365
PROGRESS_MIN == 0
PROGRESS_MAX == 100
DEFAULT_SEARCH_TOP_K == 5

PENDING == "pending"
PROCESSING == "processing"
COMPLETED == "completed"
FAILED == "failed"

Status == {PENDING, PROCESSING, COMPLETED, FAILED}

\* Export.DataType.choices
DataTypeChoices == {"conversations", "knowledge_base", "escalations", "analytics"}

None == <<>>

Some(v) == <<v>>

\* ------------------------------------------------------------------ inputs
\* Values the callers pass to the service methods.
FormatInputs == {"csv", "json"}

\* Export.Format, the formats a job can be created with.
FormatChoices == {"csv", "json", "pdf"}

\* Where exporter.export() can raise: in a collector of _collect_data or
\* while the collected data is written out.
Stages == {"collect", "write"}

DataTypeInputs == {<<"conversations">>, <<"conversations", "escalations">>}

DateRangeInputs == {0, 1, 365, 366}

PercentageInputs == {-1, 50, 101}

StatusInputs == {None} \cup {Some(s) : s \in Status}

ExceptionTexts == {"", "collector failed"}

FileSizes == 1..MaxSize

Users == {"admin@example.com"}

\* Request bodies sent to the create endpoint: data_types missing, empty,
\* unknown or valid; the date range of tests.py:228 and of scenario C.
RequestInputs ==
    {[data_types |-> dt, format |-> "csv", date_range_days |-> d,
      include_personal_data |-> FALSE] :
        dt \in {None, Some(<<>>), Some(<<"bogus">>), Some(<<"conversations">>)},
        d \in {30, 500}}

\* ------------------------------------------------------------------- state
VARIABLES export, now, worker, last, files, runs,
          context, db, table, entry, index, processor

vars == <<export, now, worker, last, files, runs,
          context, db, table, entry, index, processor>>

\* What the export service never touches: the exporter's context and source
\* tables, the table of jobs the retention sweep reads, and the knowledge
\* base entry with its vector index and embedding processor.
exporterVars == <<context, db>>

cleanupVars == <<table>>

kbVars == <<entry, index, processor, runs>>

exportVars == <<export, worker, files>>

\* Two process_entry calls on the one entry, as two requests that trigger
\* embedding at the same time make them; each is idle, active (between its
\* PROCESSING write and its final write) or done.
Runs == {"first", "second"}

Idle == [phase |-> "idle", entry |-> None, overlapped |-> FALSE]

NoRuns == [i \in Runs |-> Idle]

\* The last service call: its name, the row it was given (None when there
\* was no row), the exception it raised ("none" when it returned) and what
\* it returned or was handed by the exporter.
NoCall == [op |-> "none", before |-> None, err |-> "none", ret |-> None]

Returned(op, before) == [op |-> op, before |-> before, err |-> "none", ret |-> None]

Raised(op, before, err) == [op |-> op, before |-> before, err |-> err, ret |-> None]

\* -------------------------------------------------------------- Export.save
\* models.py: a COMPLETED row gets a completed_at, any other row loses it.
Export_save_KeepsStamp(e, t) ==
    IF e.status = COMPLETED /\ e.completed_at = None
    THEN [e EXCEPT !.completed_at = Some(t)] ELSE e

Export_save(e, t) ==
    LET e1 == IF e.status = COMPLETED /\ e.completed_at = None
              THEN [e EXCEPT !.completed_at = Some(t)] ELSE e
    IN IF e1.status # COMPLETED THEN [e1 EXCEPT !.completed_at = None] ELSE e1

\* Export.objects.create(...) with the column defaults of the model.
NewExport(user, data_types, format, date_range_days, include_personal_data) ==
    [created_by |-> Some(user),
     data_types |-> data_types,
     format |-> format,
     date_range_days |-> date_range_days,
     include_personal_data |-> include_personal_data,
     status |-> PENDING,
     progress_percentage |-> 0,
     file_path |-> None,
     file_size |-> None,
     error_message |-> "",
     completed_at |-> None]

Init ==
    /\ export = None
    /\ now = 0
    /\ worker = None
    /\ last = NoCall
    /\ files = {}
    /\ context = None
    /\ db = None
    /\ table = {}
    /\ entry = None
    /\ index = {}
    /\ processor = None
    /\ runs = NoRuns

\* ----------------------------------------------------------- create_export
ValidDateRange_UpperExclusive(date_range_days) ==
    ~(date_range_days < MIN_DATE_RANGE_DAYS \/ date_range_days >= MAX_DATE_RANGE_DAYS)

\* The check of lines 47-48.
ValidDateRange(date_range_days) ==
    ~(date_range_days < MIN_DATE_RANGE_DAYS \/ date_range_days > MAX_DATE_RANGE_DAYS)

\* The arguments of a create_export call, kept with its outcome.
CreateArgs(user, data_types, format, date_range_days, include_personal_data) ==
    [user |-> user, data_types |-> data_types, format |-> format,
     date_range_days |-> date_range_days,
     include_personal_data |-> include_personal_data]

create_export(user, data_types, format, date_range_days, include_personal_data) ==
    /\ export = None
    /\ IF ~ValidDateRange(date_range_days)
       THEN /\ last' = [op |-> "create_export", before |-> None,
                        err |-> "invalid_date_range",
                        ret |-> Some(CreateArgs(user, data_types, format,
                                                date_range_days,
                                                include_personal_data))]
            /\ UNCHANGED export
       ELSE /\ export' = Some(Export_save(
                    NewExport(user, data_types, format, date_range_days,
                              include_personal_data), now))
            /\ last' = [op |-> "create_export", before |-> None,
                        err |-> "none",
                        ret |-> Some(CreateArgs(user, data_types, format,
                                                date_range_days,
                                                include_personal_data))]
    /\ UNCHANGED <<now, worker, files>>
    /\ UNCHANGED <<exporterVars, cleanupVars, kbVars>>

\* ----------------------------------------------------- ExportViewSet.create
\* ExportCreateSerializer.validate_data_types, run on a submitted value.
validate_data_types(value) ==
    /\ value # <<>>
    /\ \A i \in DOMAIN value : value[i] \in DataTypeChoices

\* ExportCreateSerializer.validate_date_range_days.
validate_date_range_days(value) == ~(value < 1 \/ value > 365)

\* is_valid(): data_types has a model default (default=list), so the
\* serializer field is optional and its validator runs only on a submitted
\* value; date_range_days is submitted in every request considered here.
is_valid(data) ==
    /\ data.data_types # None => validate_data_types(data.data_types[1])
    /\ validate_date_range_days(data.date_range_days)

\* POST /api/export-data/exports/: is_valid(raise_exception=True), then
\* ExportService.create_export with data.get('data_types', []).
create(user, data) ==
    /\ export = None
    /\ IF ~is_valid(data)
       THEN /\ last' = [op |-> "create", before |-> None,
                        err |-> "ValidationError", ret |-> Some(data)]
            /\ UNCHANGED <<export, now, worker, files>>
            /\ UNCHANGED <<exporterVars, cleanupVars, kbVars>>
       ELSE create_export(user,
                          IF data.data_types = None THEN <<>>
                          ELSE data.data_types[1],
                          data.format, data.date_range_days,
                          data.include_personal_data)

\* ------------------------------------------------------------- exporters.py
KnownDataTypes == <<"conversations", "knowledge_base", "escalations", "analytics">>

Range(seq) == {seq[i] : i \in DOMAIN seq}

\* BaseExporter._collect_data: the keys of the collected mapping, in the
\* order the method inserts them; unknown names are ignored.
CollectedKeys(data_types) ==
    SelectSeq(KnownDataTypes, LAMBDA k : k \in Range(data_types))

\* get_exporter: the exporter class chosen for a format string.
get_exporter(format_value) ==
    IF format_value = "csv" THEN "CsvExporter"
    ELSE IF format_value = "json" THEN "JsonExporter"
    ELSE IF format_value = "pdf" THEN "PdfExporter"
    ELSE "JsonExporter"

\* The file <media_root>/exports/<export_id>/<stem>.<ext> an exporter
\* returns; the stem "export_id" stands for f"export_{export_id}".
ExportedPath(format_value, data_types) ==
    LET keys == CollectedKeys(data_types)
        kind == get_exporter(format_value)
    IN IF kind = "CsvExporter"
       THEN IF Len(keys) > 1
            THEN [stem |-> "export_id", ext |-> "zip"]
            ELSE [stem |-> IF Len(keys) = 1 THEN keys[1] ELSE "export",
                  ext |-> "csv"]
       ELSE IF kind = "JsonExporter"
       THEN [stem |-> "export_id", ext |-> "json"]
       ELSE [stem |-> "export_id", ext |-> "pdf"]

\* What exporter.export() can do: return a file of some size, or raise an
\* exception whose str() is one of ExceptionTexts.
\* A raise happens at one of Stages; `reportlab` tells whether the import of
\* PdfExporter.export succeeds in the deployment.
ExporterOutcomes ==
    {[raised |-> FALSE, text |-> "", file_size |-> n,
      stage |-> "write", reportlab |-> r] : n \in FileSizes, r \in BOOLEAN}
    \cup {[raised |-> TRUE, text |-> x, file_size |-> 0,
           stage |-> s, reportlab |-> r] :
              x \in ExceptionTexts, s \in Stages, r \in BOOLEAN}

\* The files exporter.export() has created in the job's directory when it
\* returns or raises.  CsvExporter and JsonExporter collect before they
\* open the file; the fallback of PdfExporter opens the file and collects
\* inside the with block; a reportlab canvas writes nothing before save().
WrittenFiles(e, out) ==
    LET kind == get_exporter(e.format)
        path == ExportedPath(e.format, e.data_types)
    IN IF ~out.raised THEN {path}
       ELSE IF kind = "PdfExporter"
       THEN IF out.reportlab THEN {} ELSE {path}
       ELSE IF out.stage = "collect" THEN {} ELSE {path}

\* A path a caller of mark_completed passes directly (tests.py:123).
DirectPath == [stem |-> "test", ext |-> "csv"]

\* ------------------------------------------------- mark_completed/mark_failed
mark_completed_NoSize(e, file_path, file_size, t) ==
    Export_save([e EXCEPT !.status = COMPLETED,
                          !.progress_percentage = 100,
                          !.file_path = Some(file_path),
                          !.completed_at = Some(t)], t)

mark_completed(e, file_path, file_size, t) ==
    Export_save([e EXCEPT !.status = COMPLETED,
                          !.progress_percentage = 100,
                          !.file_path = Some(file_path),
                          !.file_size = Some(file_size),
                          !.completed_at = Some(t)], t)

mark_failed_ResetsProgress(e, error_message, t) ==
    Export_save([e EXCEPT !.status = FAILED,
                          !.progress_percentage = 0,
                          !.error_message = error_message], t)

mark_failed(e, error_message, t) ==
    Export_save([e EXCEPT !.status = FAILED,
                          !.error_message = error_message], t)

\* --------------------------------------------------------------- run_export
\* Lines 76-79: status PROCESSING, progress 10, save().  The instance stays
\* in the worker's memory until the exporter has returned or raised.
StartProcessing(e, t) ==
    Export_save([e EXCEPT !.status = PROCESSING,
                          !.progress_percentage = 10], t)

run_export_start ==
    /\ worker = None
    /\ export # None
    /\ export' = Some(StartProcessing(export[1], now))
    /\ worker' = Some([export |-> StartProcessing(export[1], now),
                       before |-> export])
    /\ last' = Returned("run_export_start", export)
    /\ UNCHANGED <<now, files>>
    /\ UNCHANGED <<exporterVars, cleanupVars, kbVars>>

\* Lines 81-97: the exporter's outcome decides between mark_completed and
\* mark_failed; both save the worker's instance over the row.
FinishExport_NoHandler(e, out, t) ==
    IF out.raised THEN e
    ELSE mark_completed(e, ExportedPath(e.format, e.data_types),
                        out.file_size, t)

FinishExport(e, out, t) ==
    IF out.raised THEN mark_failed(e, out.text, t)
    ELSE mark_completed(e, ExportedPath(e.format, e.data_types),
                        out.file_size, t)

\* The except clause of lines 94-97 returns the job: nothing propagates.
RunExportError(out) == "none"

run_export_finish(out) ==
    /\ worker # None
    /\ export' = Some(FinishExport(worker[1].export, out, now))
    /\ worker' = None
    /\ last' = [op |-> "run_export", before |-> worker[1].before,
                err |-> RunExportError(out),
                ret |-> Some([raised |-> out.raised, text |-> out.text,
                              file_size |-> out.file_size,
                              stage |-> out.stage,
                              written |-> WrittenFiles(worker[1].export, out),
                              file_path |-> ExportedPath(worker[1].export.format,
                                                         worker[1].export.data_types)])]
    /\ files' = files \cup WrittenFiles(worker[1].export, out)
    /\ UNCHANGED now
    /\ UNCHANGED <<exporterVars, cleanupVars, kbVars>>

\* ------------------------------------------------------------- retry_export
RetryReset_KeepsProgress(e, t) ==
    Export_save([e EXCEPT !.status = PENDING,
                          !.error_message = ""], t)

RetryReset(e, t) ==
    Export_save([e EXCEPT !.status = PENDING,
                          !.progress_percentage = 0,
                          !.error_message = ""], t)

Retryable_AnyTerminal(e) == e.status \in {FAILED, COMPLETED}

\* The guard of line 102.
Retryable(e) == e.status = FAILED

\* Line 110 reads export.created_by.email after the save: with the owner
\* deleted (SET_NULL) the attribute access raises AttributeError.
retry_export ==
    /\ export # None
    /\ IF ~Retryable(export[1])
       THEN /\ last' = Raised("retry_export", export, "not_retryable")
            /\ UNCHANGED export
       ELSE /\ export' = Some(RetryReset(export[1], now))
            /\ last' = IF export[1].created_by = None
                       THEN Raised("retry_export", export, "AttributeError")
                       ELSE Returned("retry_export", export)
    /\ UNCHANGED <<now, worker, files>>
    /\ UNCHANGED <<exporterVars, cleanupVars, kbVars>>

\* ---------------------------------------------------------- update_progress
SetProgress(e, percentage, status, t) ==
    Export_save([e EXCEPT !.progress_percentage = percentage,
                          !.status = IF status # None THEN status[1] ELSE @], t)

update_progress(percentage, status) ==
    /\ worker = None
    /\ export # None
    /\ IF percentage < PROGRESS_MIN \/ percentage > PROGRESS_MAX
       THEN /\ last' = Raised("update_progress", export, "invalid_progress")
            /\ UNCHANGED export
       ELSE /\ export' = Some(SetProgress(export[1], percentage, status, now))
            /\ last' = Returned("update_progress", export)
    /\ UNCHANGED <<now, worker, files>>
    /\ UNCHANGED <<exporterVars, cleanupVars, kbVars>>

\* mark_completed and mark_failed called directly on a loaded job.
call_mark_completed(file_path, file_size) ==
    /\ worker = None
    /\ export # None
    /\ export' = Some(mark_completed(export[1], file_path, file_size, now))
    /\ last' = Returned("mark_completed", export)
    /\ UNCHANGED <<now, worker, files>>
    /\ UNCHANGED <<exporterVars, cleanupVars, kbVars>>

call_mark_failed(error_message) ==
    /\ worker = None
    /\ export # None
    /\ export' = Some(mark_failed(export[1], error_message, now))
    /\ last' = Returned("mark_failed", export)
    /\ UNCHANGED <<now, worker, files>>
    /\ UNCHANGED <<exporterVars, cleanupVars, kbVars>>

\* -------------------------------------------------------- get_download_info
DownloadInfo_PathOnly(e) ==
    IF e.file_path = None THEN [err |-> "not_ready", ret |-> None]
    ELSE [err |-> "none",
          ret |-> Some([download_url |-> e.file_path[1],
                        file_size |-> e.file_size,
                        format |-> e.format])]

DownloadInfo(e) ==
    IF e.status # COMPLETED THEN [err |-> "not_ready", ret |-> None]
    ELSE IF e.file_path = None THEN [err |-> "file_missing", ret |-> None]
    ELSE [err |-> "none",
          ret |-> Some([download_url |-> e.file_path[1],
                        file_size |-> e.file_size,
                        format |-> e.format])]

get_download_info ==
    /\ export # None
    /\ last' = [op |-> "get_download_info", before |-> export,
                err |-> DownloadInfo(export[1]).err,
                ret |-> DownloadInfo(export[1]).ret]
    /\ UNCHANGED <<export, now, worker, files>>
    /\ UNCHANGED <<exporterVars, cleanupVars, kbVars>>

\* ------------------------------------------------------------- environment
\* Deleting the owning user: created_by is on_delete=SET_NULL.  Not taken
\* while a run holds an instance that still refers to the user.
delete_user(user) ==
    /\ worker = None
    /\ export # None
    /\ export[1].created_by = Some(user)
    /\ export' = Some([export[1] EXCEPT !.created_by = None])
    /\ last' = Returned("delete_user", export)
    /\ UNCHANGED <<now, worker, files>>
    /\ UNCHANGED <<exporterVars, cleanupVars, kbVars>>

\* Storage retention outside the service: a stored export file disappears.
remove_file(file_path) ==
    /\ file_path \in files
    /\ files' = files \ {file_path}
    /\ last' = Returned("remove_file", export)
    /\ UNCHANGED <<export, now, worker>>
    /\ UNCHANGED <<exporterVars, cleanupVars, kbVars>>

Tick ==
    /\ now < MaxTime
    /\ now' = now + 1
    /\ UNCHANGED <<export, worker, last, files>>
    /\ UNCHANGED <<exporterVars, cleanupVars, kbVars>>

Next ==
    \/ \E u \in Users, dt \in DataTypeInputs, f \in FormatChoices,
          d \in DateRangeInputs, p \in BOOLEAN : create_export(u, dt, f, d, p)
    \/ \E u \in Users, data \in RequestInputs : create(u, data)
    \/ run_export_start
    \/ \E out \in ExporterOutcomes : run_export_finish(out)
    \/ retry_export
    \/ \E pct \in PercentageInputs, st \in StatusInputs : update_progress(pct, st)
    \/ \E n \in FileSizes : call_mark_completed(DirectPath, n)
    \/ \E x \in ExceptionTexts : call_mark_failed(x)
    \/ get_download_info
    \/ \E u \in Users : delete_user(u)
    \/ \E f \in files : remove_file(f)
    \/ Tick

Spec == Init /\ [][Next]_vars

\* The calls a job receives from the orchestrator alone: creation, runs and
\* retries (and reads of the download info), without direct status writes.
NextRun ==
    \/ \E u \in Users, dt \in DataTypeInputs, f \in FormatChoices,
          d \in DateRangeInputs, p \in BOOLEAN : create_export(u, dt, f, d, p)
    \/ run_export_start
    \/ \E out \in ExporterOutcomes : run_export_finish(out)
    \/ retry_export
    \/ get_download_info
    \/ Tick

SpecRun == Init /\ [][NextRun]_vars

\* ================================================================ exporters
\* exporters.py as a function of the ExportContext and of the rows the
\* collectors' queries return.  A record is a function from its keys to
\* nullable values; `db` holds, per source table, the rows inside the date
\* window of the context.
MISSING == "null"

Anonymous == [user |-> None]

Owned == [user |-> Some("user@example.com")]

ConversationRows ==
    {<<>>, <<Anonymous>>, <<Owned>>, <<Anonymous, Owned>>, <<Owned, Anonymous>>}

KnowledgeRows == {<<>>, <<[created_by |-> Some("admin@example.com")]>>}

EscalationRows ==
    {<<>>, <<[customer_name |-> "Customer",
              customer_email |-> "customer@example.com"]>>}

MetricRows == {<<>>, <<[date |-> 0]>>}

\* data_types lists that reach an exporter: what validate_data_types lets
\* through (any order, repeats included) and the empty list of a request
\* without data_types.
ContextDataTypes ==
    {<<>>, <<"conversations">>, <<"knowledge_base">>, <<"escalations">>,
     <<"analytics">>, <<"conversations", "conversations">>,
     <<"conversations", "escalations">>, <<"escalations", "conversations">>,
     <<"knowledge_base", "analytics">>,
     <<"conversations", "knowledge_base", "escalations">>,
     <<"conversations", "knowledge_base", "escalations", "analytics">>}

Item(keys) == [k \in keys |-> "value"]

\* _fetch_conversations: user_email only with personal data and a user.
fetch_conversations(rows, include_personal_data) ==
    [i \in DOMAIN rows |->
        LET item == Item({"id", "session_id", "user_query", "ai_response",
                          "status", "language", "response_time_ms",
                          "is_escalated", "escalation_reason", "created_at"})
                    @@ ("escalated_at" :> MISSING)
        IN IF include_personal_data /\ rows[i].user # None
           THEN item @@ ("user_email" :> rows[i].user[1])
           ELSE item]

\* _fetch_knowledge_base: created_by_email only with personal data and an
\* author.
fetch_knowledge_base(rows, include_personal_data) ==
    [i \in DOMAIN rows |->
        LET item == Item({"id", "category", "status", "issue_title_en",
                          "solution_en", "issue_title_sv", "solution_sv",
                          "created_at"})
        IN IF include_personal_data /\ rows[i].created_by # None
           THEN item @@ ("created_by_email" :> rows[i].created_by[1])
           ELSE item]

fetch_escalations_Unconditional(rows, include_personal_data) ==
    [i \in DOMAIN rows |->
        Item({"id", "equipment_id", "problem_description",
              "status", "priority", "language", "created_at"})
            @@ ("customer_name" :> rows[i].customer_name)
            @@ ("customer_email" :> rows[i].customer_email)]

\* _fetch_escalations: customer name and email only with personal data.
fetch_escalations(rows, include_personal_data) ==
    [i \in DOMAIN rows |->
        LET item == Item({"id", "equipment_id", "problem_description",
                          "status", "priority", "language", "created_at"})
        IN IF include_personal_data
           THEN item @@ ("customer_name" :> rows[i].customer_name)
                     @@ ("customer_email" :> rows[i].customer_email)
           ELSE item]

\* _fetch_analytics: one record per DashboardMetric row.
fetch_analytics(rows) ==
    [i \in DOMAIN rows |->
        Item({"date", "active_conversations", "total_conversations",
              "resolved_conversations", "total_users", "unique_visitors",
              "escalated_cases", "pending_review", "avg_response_time",
              "fastest_response_time", "slowest_response_time"})]

Fetch(name, ctx, d) ==
    IF name = "conversations"
    THEN fetch_conversations(d.conversations, ctx.include_personal_data)
    ELSE IF name = "knowledge_base"
    THEN fetch_knowledge_base(d.knowledge_base, ctx.include_personal_data)
    ELSE IF name = "escalations"
    THEN fetch_escalations(d.escalations, ctx.include_personal_data)
    ELSE fetch_analytics(d.analytics)

\* _collect_data: the mapping as the list of its items in insertion order.
collect_data(ctx, d) ==
    LET keys == CollectedKeys(ctx.data_types)
    IN [i \in DOMAIN keys |-> [name |-> keys[i], rows |-> Fetch(keys[i], ctx, d)]]

\* csv.DictWriter over a data set: the header is the key list of the first
\* record, or ["empty"] for no records; writerows raises ValueError at the
\* first record that has a key outside the header, after the records before
\* it were written.
Fits(record, header) == DOMAIN record \subseteq header

WriteCsv(rows) ==
    IF rows = <<>>
    THEN [raised |-> FALSE, header |-> {"empty"}, rows |-> <<>>]
    ELSE LET header == DOMAIN rows[1]
             bad == {i \in DOMAIN rows : ~Fits(rows[i], header)}
             stop == IF bad = {} THEN Len(rows) + 1
                     ELSE CHOOSE i \in bad : \A j \in bad : i <= j
         IN [raised |-> bad # {}, header |-> header,
             rows |-> SubSeq(rows, 1, stop - 1)]

\* CsvExporter.export, lines 152-165: several data sets go into one zip,
\* one {name}.csv entry each, written in order until a writer raises.
CsvZip(data) ==
    LET body == [i \in DOMAIN data |-> WriteCsv(data[i].rows)]
        bad == {i \in DOMAIN data : body[i].raised}
        stop == IF bad = {} THEN Len(data) + 1
                ELSE CHOOSE i \in bad : \A j \in bad : i <= j
    IN [raised |-> bad # {},
        file_path |-> [stem |-> "export_id", ext |-> "zip"],
        entries |-> [i \in 1..(stop - 1) |->
                        [name |-> [stem |-> data[i].name, ext |-> "csv"],
                         header |-> body[i].header,
                         rows |-> body[i].rows]]]

\* Lines 167-179: a single data set, or none, goes into one csv file.
CsvSingle(data) ==
    LET name == IF data # <<>> THEN data[1].name ELSE "export"
        body == WriteCsv(IF data # <<>> THEN data[1].rows ELSE <<>>)
    IN [raised |-> body.raised,
        file_path |-> [stem |-> name, ext |-> "csv"],
        entries |-> <<[name |-> [stem |-> name, ext |-> "csv"],
                       header |-> body.header,
                       rows |-> body.rows]>>]

CsvExporter_export_ZipFromThree(data) ==
    IF Len(data) > 2 THEN CsvZip(data) ELSE CsvSingle(data)

\* Line 152: more than one collected data set means a zip.
CsvExporter_export(data) ==
    IF Len(data) > 1 THEN CsvZip(data) ELSE CsvSingle(data)

\* JsonExporter.export: the collected mapping dumped into one file.
JsonExporter_export(data) ==
    [raised |-> FALSE,
     file_path |-> [stem |-> "export_id", ext |-> "json"],
     entries |-> [i \in DOMAIN data |->
                     [name |-> [stem |-> data[i].name, ext |-> ""],
                      header |-> {},
                      rows |-> data[i].rows]]]

\* get_exporter(format, context).export(): the collected data, the file
\* written with its contents, and whether the call raised.
Export(ctx, d) ==
    LET data == collect_data(ctx, d)
        out == IF get_exporter(ctx.format) = "CsvExporter"
               THEN CsvExporter_export(data)
               ELSE JsonExporter_export(data)
    IN [raised |-> out.raised, file_path |-> out.file_path,
        entries |-> out.entries, data |-> data]

exporter_export ==
    /\ context # None
    /\ last' = [op |-> "export", before |-> None,
                err |-> IF Export(context[1], db[1]).raised
                        THEN "ValueError" ELSE "none",
                ret |-> Some(Export(context[1], db[1]))]
    /\ UNCHANGED <<now, exporterVars, exportVars, cleanupVars, kbVars>>

\* An exporter is constructed on some context and reads some tables.
InitExporter ==
    /\ export = None
    /\ now = 0
    /\ worker = None
    /\ last = NoCall
    /\ files = {}
    /\ context \in {Some([data_types |-> dt, format |-> f,
                           include_personal_data |-> p]) :
                        dt \in ContextDataTypes, f \in FormatInputs,
                        p \in BOOLEAN}
    /\ db \in {Some([conversations |-> c, knowledge_base |-> k,
                      escalations |-> e, analytics |-> a]) :
                   c \in ConversationRows, k \in KnowledgeRows,
                   e \in EscalationRows, a \in MetricRows}
    /\ table = {}
    /\ entry = None
    /\ index = {}
    /\ processor = None
    /\ runs = NoRuns

NextExporter == exporter_export

SpecExporter == InitExporter /\ [][NextExporter]_vars

\* ================================================================ retention
\* cleanup_old_exports over the exports table.  A row is kept here with its
\* id and the two columns the sweep's filter reads; the clock counts days.
\* Rows come into the table PENDING and change status through Export.save,
\* as every writer of the service does.
JobIds == 1..MaxRows

DaysInputs == {0, 1, 2}

insert_job(id) ==
    /\ \A r \in table : r.id # id
    /\ table' = table \cup {Export_save([id |-> id, status |-> PENDING,
                                         completed_at |-> None], now)}
    /\ last' = Returned("insert_job", None)
    /\ UNCHANGED <<now, exportVars, exporterVars, kbVars>>

save_status(r, status) ==
    /\ r \in table
    /\ r.status # status
    /\ table' = (table \ {r}) \cup {Export_save([r EXCEPT !.status = status], now)}
    /\ last' = Returned("save_status", None)
    /\ UNCHANGED <<now, exportVars, exporterVars, kbVars>>

OldExports_Inclusive(rows, days, t) ==
    {r \in rows : /\ r.status = COMPLETED
                  /\ r.completed_at # None
                  /\ r.completed_at[1] <= t - days}

\* The filter of lines 178-181; a NULL completed_at matches no comparison.
OldExports(rows, days, t) ==
    {r \in rows : /\ r.status = COMPLETED
                  /\ r.completed_at # None
                  /\ r.completed_at[1] < t - days}

cleanup_old_exports(days) ==
    /\ table' = table \ OldExports(table, days, now)
    /\ last' = [op |-> "cleanup_old_exports", before |-> Some(table),
                err |-> "none",
                ret |-> Some([days |-> days, now |-> now,
                              count |-> Cardinality(OldExports(table, days, now))])]
    /\ UNCHANGED <<now, exportVars, exporterVars, kbVars>>

Day ==
    /\ now < MaxAge
    /\ now' = now + 1
    /\ UNCHANGED <<last, table, exportVars, exporterVars, kbVars>>

NextCleanup ==
    \/ \E id \in JobIds : insert_job(id)
    \/ \E r \in table, s \in Status : save_status(r, s)
    \/ \E d \in DaysInputs : cleanup_old_exports(d)
    \/ Day

SpecCleanup == Init /\ [][NextCleanup]_vars

\* =========================================================== knowledge base
\* One knowledge base entry, the vectors the external index holds, and the
\* EmbeddingProcessor of a process_entry call between its PROCESSING write
\* and its final write.  The embedding statuses are the strings of the
\* export statuses (models.py:23-27).  A save(update_fields=...) writes the
\* listed columns of the in-memory instance over the row; it raises when the
\* row is gone and, as any database write, can raise on its own.  A backend
\* call (embed_query, upsert, query) returns or raises.
Pairs ==
    {[title |-> None, solution |-> None],
     [title |-> Some("title"), solution |-> None],
     [title |-> Some("title"), solution |-> Some("")],
     [title |-> Some("title"), solution |-> Some("solution")]}

\* The contents an entry is created with.
ContentInputs ==
    {[issue_title_en |-> en.title, solution_en |-> en.solution,
      issue_title_sv |-> sv.title, solution_sv |-> sv.solution] :
        en \in Pairs, sv \in Pairs}

SaveOutcomes == {"ok", "raise"}

\* settings and calls of the two backends during one service call.
BackendOutcomes ==
    {[embeddings |-> e, vector_store |-> v, embed_raises |-> x, store_raises |-> y] :
        e \in BOOLEAN, v \in BOOLEAN, x \in BOOLEAN, y \in BOOLEAN}

\* KnowledgeBaseEntry.Status.
ACTIVE == "active"

INACTIVE == "inactive"

\* KnowledgeBaseEntry.objects.create(...) with the column defaults.
NewEntry(content) ==
    [issue_title_en |-> content.issue_title_en,
     solution_en |-> content.solution_en,
     issue_title_sv |-> content.issue_title_sv,
     solution_sv |-> content.solution_sv,
     category |-> "General",
     status |-> ACTIVE,
     tags |-> <<>>,
     embedding_status |-> PENDING,
     pinecone_vector_ids |-> <<>>,
     processed_at |-> None]

\* Python truthiness of a nullable string column.
Truthy(value) == value # None /\ value[1] # ""

\* f"{entry.id}_{language}"
VectorId(language) == [entry_id |-> "entry_id", language |-> language]

\* _create_vector_data: the metadata stored with a vector.
VectorData(e, language) ==
    [id |-> VectorId(language), entry_id |-> "entry_id",
     language |-> language, category |-> e.category,
     status |-> e.status, tags |-> e.tags]

Languages_SwedishFirst(e) ==
    (IF Truthy(e.issue_title_sv) /\ Truthy(e.solution_sv) THEN <<"sv">> ELSE <<>>)
    \o (IF Truthy(e.issue_title_en) /\ Truthy(e.solution_en) THEN <<"en">> ELSE <<>>)

\* Lines 254-266: the languages embedded, English first.
Languages(e) ==
    (IF Truthy(e.issue_title_en) /\ Truthy(e.solution_en) THEN <<"en">> ELSE <<>>)
    \o (IF Truthy(e.issue_title_sv) /\ Truthy(e.solution_sv) THEN <<"sv">> ELSE <<>>)

\* generate_and_store_embeddings: the EmbeddingResult and the vectors upserted.
generate_and_store_embeddings(e, b) ==
    IF ~b.vector_store \/ ~b.embeddings
    THEN [success |-> FALSE, vector_ids |-> <<>>,
          error_message |-> Some("Services not available"), upserted |-> {}]
    ELSE IF Languages(e) # <<>> /\ b.embed_raises
    THEN [success |-> FALSE, vector_ids |-> <<>>,
          error_message |-> Some("Error storing embeddings"), upserted |-> {}]
    ELSE IF Languages(e) = <<>>
    THEN [success |-> FALSE, vector_ids |-> <<>>,
          error_message |-> Some("No content to process"), upserted |-> {}]
    ELSE IF b.store_raises
    THEN [success |-> FALSE, vector_ids |-> <<>>,
          error_message |-> Some("Error storing embeddings"), upserted |-> {}]
    ELSE [success |-> TRUE,
          vector_ids |-> [i \in DOMAIN Languages(e) |-> VectorId(Languages(e)[i])],
          error_message |-> None,
          upserted |-> {VectorData(e, Languages(e)[i]) : i \in DOMAIN Languages(e)}]

\* upsert: vectors replace the stored vectors of the same id.
Upsert(stored, vectors) ==
    {v \in stored : \A w \in vectors : w.id # v.id} \cup vectors

\* The EmbeddingResult a caller sees.
Result(r) ==
    [success |-> r.success, vector_ids |-> r.vector_ids,
     error_message |-> r.error_message]

\* save(update_fields=[...]) persists when the row exists and the write
\* itself does not fail.
CanWrite(row, w) == row # None /\ w = "ok"

\* The except clause of lines 130-139: _update_status(FAILED), then a
\* failure result; an exception of that write leaves process_entry.
Handle(row, writes, wh) ==
    IF CanWrite(row, wh)
    THEN [entry |-> Some([row[1] EXCEPT !.embedding_status = FAILED]),
          err |-> "none",
          result |-> Some([success |-> FALSE, vector_ids |-> <<>>,
                           error_message |-> Some("DatabaseError")]),
          writes |-> Append(writes, FAILED), fault |-> TRUE]
    ELSE [entry |-> row, err |-> "DatabaseError", result |-> None,
          writes |-> writes, fault |-> TRUE]

Complete_KeepsIds(row, r, w, writes, wh, t) ==
    IF CanWrite(row, w)
    THEN [entry |-> Some([row[1] EXCEPT !.embedding_status = COMPLETED,
                                        !.processed_at = Some(t)]),
          err |-> "none", result |-> Some(Result(r)),
          writes |-> Append(writes, COMPLETED), fault |-> FALSE]
    ELSE Handle(row, writes, wh)

\* Lines 115-120: _mark_processing_complete writes the vector ids, COMPLETED
\* and processed_at in one save.
Complete(row, r, w, writes, wh, t) ==
    IF CanWrite(row, w)
    THEN [entry |-> Some([row[1] EXCEPT !.pinecone_vector_ids = r.vector_ids,
                                        !.embedding_status = COMPLETED,
                                        !.processed_at = Some(t)]),
          err |-> "none", result |-> Some(Result(r)),
          writes |-> Append(writes, COMPLETED), fault |-> FALSE]
    ELSE Handle(row, writes, wh)

Fail_ClearsIds(row, r, w, writes, wh) ==
    IF CanWrite(row, w)
    THEN [entry |-> Some([row[1] EXCEPT !.embedding_status = FAILED,
                                        !.pinecone_vector_ids = r.vector_ids]),
          err |-> "none", result |-> Some(Result(r)),
          writes |-> Append(writes, FAILED), fault |-> FALSE]
    ELSE Handle(row, writes, wh)

\* Lines 121-128: a failure result is answered with _update_status(FAILED).
Fail(row, r, w, writes, wh) ==
    IF CanWrite(row, w)
    THEN [entry |-> Some([row[1] EXCEPT !.embedding_status = FAILED]),
          err |-> "none", result |-> Some(Result(r)),
          writes |-> Append(writes, FAILED), fault |-> FALSE]
    ELSE Handle(row, writes, wh)

\* What a finished process_entry call leaves in `last`.
Ended(before, end, b) ==
    [op |-> "process_entry", before |-> before, err |-> end.err,
     ret |-> Some([result |-> end.result, writes |-> end.writes,
                   fault |-> end.fault, backend |-> b])]

\* ModelViewSet.destroy: the row is deleted for good (ids are UUIDs and are
\* not reused); the index is not told.
delete_entry ==
    /\ entry # None
    /\ entry' = None
    /\ last' = Returned("delete_entry", entry)
    /\ UNCHANGED <<now, index, processor, runs, exportVars, exporterVars, cleanupVars>>

\* process_entry up to the PROCESSING write (lines 103-110).
process_entry_start(w, wh) ==
    /\ processor = None
    /\ IF entry = None
       THEN /\ last' = Ended(None,
                             [err |-> "none",
                              result |-> Some([success |-> FALSE,
                                               vector_ids |-> <<>>,
                                               error_message |-> Some("Entry not found")]),
                              writes |-> <<>>, fault |-> FALSE], None)
            /\ UNCHANGED <<entry, processor>>
       ELSE IF w = "ok"
       THEN /\ entry' = Some([entry[1] EXCEPT !.embedding_status = PROCESSING])
            /\ processor' = Some([entry |-> [entry[1] EXCEPT
                                                !.embedding_status = PROCESSING],
                                  before |-> entry,
                                  writes |-> <<PROCESSING>>])
            /\ last' = Returned("process_entry_start", entry)
       ELSE /\ entry' = Handle(entry, <<>>, wh).entry
            /\ last' = Ended(entry, Handle(entry, <<>>, wh), None)
            /\ UNCHANGED processor
    /\ UNCHANGED <<now, index, runs, exportVars, exporterVars, cleanupVars>>

\* The rest of process_entry (lines 112-139): the embedding service is built
\* and called on the in-memory instance, then the final status is written.
Finish(row, p, b, w, wh, t) ==
    LET r == generate_and_store_embeddings(p.entry, b)
    IN IF r.success THEN Complete(row, r, w, p.writes, wh, t)
       ELSE Fail(row, r, w, p.writes, wh)

process_entry_finish(b, w, wh) ==
    /\ processor # None
    /\ entry' = Finish(entry, processor[1], b, w, wh, now).entry
    /\ index' = Upsert(index,
                       generate_and_store_embeddings(processor[1].entry, b).upserted)
    /\ processor' = None
    /\ last' = Ended(processor[1].before,
                     Finish(entry, processor[1], b, w, wh, now), Some(b))
    /\ UNCHANGED <<now, runs, exportVars, exporterVars, cleanupVars>>

\* --------------------------------------------------- concurrent processing
\* self.entry of a processor after its final write: _mark_processing_complete
\* assigns the three fields, _update_status the status alone.
Instance(e, r, t) ==
    IF r.success
    THEN [e EXCEPT !.pinecone_vector_ids = r.vector_ids,
                   !.embedding_status = COMPLETED,
                   !.processed_at = Some(t)]
    ELSE [e EXCEPT !.embedding_status = FAILED]

\* process_entry of run i up to the PROCESSING write: _get_entry loads the
\* row into self.entry, _update_status saves the status column.
run_start(i) ==
    /\ runs[i].phase = "idle"
    /\ entry # None
    /\ entry' = Some([entry[1] EXCEPT !.embedding_status = PROCESSING])
    /\ runs' = [j \in Runs |->
                  IF j = i
                  THEN [phase |-> "active",
                        entry |-> Some([entry[1] EXCEPT
                                           !.embedding_status = PROCESSING]),
                        overlapped |-> \E k \in Runs : runs[k].phase = "active"]
                  ELSE [runs[j] EXCEPT
                           !.overlapped = @ \/ runs[j].phase = "active"]]
    /\ last' = Returned("run_start", entry)
    /\ UNCHANGED <<now, index, processor, exportVars, exporterVars, cleanupVars>>

\* The rest of process_entry of run i: embedding and upsert from self.entry,
\* then the final save of the columns that run assigns.
run_finish(i, b) ==
    /\ runs[i].phase = "active"
    /\ LET p == [entry |-> runs[i].entry[1], writes |-> <<PROCESSING>>]
           r == generate_and_store_embeddings(p.entry, b)
       IN /\ entry' = Finish(entry, p, b, "ok", "ok", now).entry
          /\ index' = Upsert(index, r.upserted)
          /\ runs' = [runs EXCEPT ![i] = [phase |-> "done",
                                          entry |-> Some(Instance(p.entry, r, now)),
                                          overlapped |-> runs[i].overlapped]]
          /\ last' = [op |-> "run_finish", before |-> entry, err |-> "none",
                      ret |-> Some([run |-> i, backend |-> b,
                                    result |-> Result(r)])]
    /\ UNCHANGED <<now, processor, exportVars, exporterVars, cleanupVars>>

\* --------------------------------------------------------- entry endpoints
\* KnowledgeBaseViewSet create, update/partial_update and toggle_status.  A
\* submitted field is None when the key is absent from the request and
\* Some(v) when it is present, v being null (None) or a string (Some(s)).
\* str.strip on the strings that occur in requests.
Strip(s) ==
    IF s = " " THEN ""
    ELSE IF s = " title " THEN "title"
    ELSE s

to_internal_value_NoTrim(x) == x

\* CharField.run_validation of the four content fields (allow_null,
\* allow_blank, and the field's default trim_whitespace).
to_internal_value(x) ==
    IF x = None \/ x[1] = None THEN x
    ELSE Some(Some(Strip(x[1][1])))

\* The title and solution a request can carry for one language.
PairInputs ==
    {[title |-> None, solution |-> None],
     [title |-> Some(None), solution |-> Some(None)],
     [title |-> Some(Some(" ")), solution |-> Some(Some(" "))],
     [title |-> Some(Some("title")), solution |-> None],
     [title |-> Some(Some("title")), solution |-> Some(Some(" "))],
     [title |-> Some(Some(" title ")), solution |-> Some(Some("solution"))]}

CategoryChoices == {"General", "Other"}

\* Request bodies of POST /knowledge-base/: category is required.
CreateInputs ==
    {[issue_title_en |-> en.title, solution_en |-> en.solution,
      issue_title_sv |-> sv.title, solution_sv |-> sv.solution,
      category |-> Some("General"), status |-> None, tags |-> None] :
        en \in PairInputs, sv \in PairInputs}

\* Request bodies of PATCH /knowledge-base/<id>/ with the fields of one
\* language.
ContentUpdates ==
    {[issue_title_en |-> en.title, solution_en |-> en.solution,
      issue_title_sv |-> None, solution_sv |-> None,
      category |-> None, status |-> None, tags |-> None] : en \in PairInputs}
    \cup {[issue_title_en |-> None, solution_en |-> None,
           issue_title_sv |-> sv.title, solution_sv |-> sv.solution,
           category |-> None, status |-> None, tags |-> None] :
              sv \in PairInputs}

\* Request bodies of PATCH /knowledge-base/<id>/ with a new category, a new
\* status or new tags and no content field.
MetaUpdates ==
    {[issue_title_en |-> None, solution_en |-> None,
      issue_title_sv |-> None, solution_sv |-> None,
      category |-> c, status |-> None, tags |-> None] :
         c \in {Some(x) : x \in CategoryChoices}}
    \cup {[issue_title_en |-> None, solution_en |-> None,
           issue_title_sv |-> None, solution_sv |-> None,
           category |-> None, status |-> Some(INACTIVE), tags |-> None],
          [issue_title_en |-> None, solution_en |-> None,
           issue_title_sv |-> None, solution_sv |-> None,
           category |-> None, status |-> None, tags |-> Some(<<"tag">>)]}

\* The backends during the embedding run of a request: configured, the
\* upsert succeeding or raising.
EditBackends ==
    {b \in BackendOutcomes :
        b.embeddings /\ b.vector_store /\ ~b.embed_raises}

\* Both backends configured and answering.
Available ==
    {b \in EditBackends : ~b.store_raises}

\* serializer.validated_data: the submitted fields after field validation.
ValidatedData(data) ==
    [data EXCEPT !.issue_title_en = to_internal_value(@),
                 !.solution_en = to_internal_value(@),
                 !.issue_title_sv = to_internal_value(@),
                 !.solution_sv = to_internal_value(@)]

\* `(value or '').strip()` of a nullable string.
Text(value) == IF Truthy(value) THEN Strip(value[1]) ELSE ""

\* data.get(key, stored): the submitted value, else the stored one.
Get(x, stored) == IF x # None THEN x[1] ELSE stored

ValidContent_AllowsHalf(issue_en, solution_en, issue_sv, solution_sv) ==
    \/ issue_en # "" /\ solution_en # ""
    \/ issue_sv # "" /\ solution_sv # ""

\* The checks both validate methods make on the four stripped strings.
ValidContent(issue_en, solution_en, issue_sv, solution_sv) ==
    /\ \/ issue_en # "" /\ solution_en # ""
       \/ issue_sv # "" /\ solution_sv # ""
    /\ (issue_en # "") = (solution_en # "")
    /\ (issue_sv # "") = (solution_sv # "")

\* KnowledgeBaseEntryCreateSerializer.validate.
CreateValid(data) ==
    ValidContent(Text(Get(data.issue_title_en, None)),
                 Text(Get(data.solution_en, None)),
                 Text(Get(data.issue_title_sv, None)),
                 Text(Get(data.solution_sv, None)))

\* KnowledgeBaseEntryUpdateSerializer.validate.
UpdateValid(data, instance) ==
    ValidContent(Text(Get(data.issue_title_en, instance.issue_title_en)),
                 Text(Get(data.solution_en, instance.solution_en)),
                 Text(Get(data.issue_title_sv, instance.issue_title_sv)),
                 Text(Get(data.solution_sv, instance.solution_sv)))

\* serializer.save(): the validated fields are set on the instance and the
\* row is saved; a column without a submitted value keeps what it had (for
\* a new row, its default).
Saved(instance, data) ==
    [instance EXCEPT !.issue_title_en = Get(data.issue_title_en, @),
                     !.solution_en = Get(data.solution_en, @),
                     !.issue_title_sv = Get(data.issue_title_sv, @),
                     !.solution_sv = Get(data.solution_sv, @),
                     !.category = Get(data.category, @),
                     !.status = Get(data.status, @),
                     !.tags = Get(data.tags, @)]

\* _trigger_embedding_generation: process_entry on the saved row, from the
\* PROCESSING write to the final write.
Triggered(row, b, t) ==
    LET p == [entry |-> [row EXCEPT !.embedding_status = PROCESSING],
              writes |-> <<PROCESSING>>]
    IN [entry |-> Finish(Some(p.entry), p, b, "ok", "ok", t).entry,
        upserted |-> generate_and_store_embeddings(p.entry, b).upserted,
        result |-> Some(Result(generate_and_store_embeddings(p.entry, b)))]

\* perform_update: embeddings are regenerated when a content field is among
\* the validated data.
ContentSubmitted(data) ==
    \/ data.issue_title_en # None
    \/ data.solution_en # None
    \/ data.issue_title_sv # None
    \/ data.solution_sv # None

\* What a request leaves in `last`.
Answered(op, before, err, data, b, ran, result) ==
    [op |-> op, before |-> before, err |-> err,
     ret |-> Some([data |-> data, backend |-> b, ran |-> ran,
                   result |-> result, index |-> index])]

\* POST /knowledge-base/: is_valid, perform_create.
createEntry(data, b) ==
    /\ entry = None
    /\ IF ~CreateValid(ValidatedData(data))
       THEN /\ last' = Answered("createEntry", entry, "ValidationError",
                                data, b, FALSE, None)
            /\ UNCHANGED <<entry, index>>
       ELSE LET row == Saved(NewEntry([issue_title_en |-> None,
                                       solution_en |-> None,
                                       issue_title_sv |-> None,
                                       solution_sv |-> None]),
                             ValidatedData(data))
            IN /\ entry' = Triggered(row, b, now).entry
               /\ index' = Upsert(index, Triggered(row, b, now).upserted)
               /\ last' = Answered("createEntry", entry, "none", data, b,
                                   TRUE, Triggered(row, b, now).result)
    /\ UNCHANGED <<now, processor, runs, exportVars, exporterVars, cleanupVars>>

\* PATCH /knowledge-base/<id>/: is_valid, perform_update.
updateEntry(data, b) ==
    /\ entry # None
    /\ IF ~UpdateValid(ValidatedData(data), entry[1])
       THEN /\ last' = Answered("updateEntry", entry, "ValidationError",
                                data, b, FALSE, None)
            /\ UNCHANGED <<entry, index>>
       ELSE LET row == Saved(entry[1], ValidatedData(data))
            IN IF ContentSubmitted(ValidatedData(data))
               THEN /\ entry' = Triggered(row, b, now).entry
                    /\ index' = Upsert(index, Triggered(row, b, now).upserted)
                    /\ last' = Answered("updateEntry", entry, "none", data, b,
                                        TRUE, Triggered(row, b, now).result)
               ELSE /\ entry' = Some(row)
                    /\ last' = Answered("updateEntry", entry, "none", data, b,
                                        FALSE, None)
                    /\ UNCHANGED index
    /\ UNCHANGED <<now, processor, runs, exportVars, exporterVars, cleanupVars>>

\* POST /knowledge-base/<id>/toggle_status/.
toggle_status ==
    /\ entry # None
    /\ entry' = Some([entry[1] EXCEPT
                         !.status = IF @ = ACTIVE THEN INACTIVE ELSE ACTIVE])
    /\ last' = Returned("toggle_status", entry)
    /\ UNCHANGED <<now, index, processor, runs, exportVars, exporterVars, cleanupVars>>

\* Requests that create the entry and rewrite its content.
NextEdit ==
    \/ \E data \in CreateInputs, b \in EditBackends : createEntry(data, b)
    \/ \E data \in ContentUpdates, b \in EditBackends : updateEntry(data, b)

SpecEdit == Init /\ [][NextEdit]_vars

\* Requests that create the entry, rewrite its content and change its
\* category, status and tags, with the backends available.
NextMeta ==
    \/ \E data \in CreateInputs, b \in Available : createEntry(data, b)
    \/ \E data \in ContentUpdates \cup MetaUpdates, b \in Available :
          updateEntry(data, b)
    \/ toggle_status

SpecMeta == Init /\ [][NextMeta]_vars

\* ------------------------------------------------------------------ search
LanguageInputs == {None, Some("en"), Some("sv")}

CategoryInputs == {None, Some(""), Some("General"), Some("Other")}

TopKInputs == {1, DEFAULT_SEARCH_TOP_K}

\* A vector of another entry, filed under another category.
OtherVector ==
    [id |-> [entry_id |-> "other_id", language |-> "en"],
     entry_id |-> "other_id", language |-> "en", category |-> "Other",
     status |-> ACTIVE, tags |-> <<>>]

\* The vectors an index can hold: those process_entry upserts for the entry
\* and the one of the other entry.
KnownVectors ==
    {VectorData(NewEntry(c), l) : c \in ContentInputs, l \in {"en", "sv"}}
    \cup {OtherVector}

\* The orders in which the index can score the stored vectors for a query.
RankInputs ==
    {r \in [1..Cardinality(KnownVectors) -> KnownVectors] :
        \A i, j \in DOMAIN r : r[i] = r[j] => i = j}

\* The backends as a search call can find them: one of them not configured,
\* embed_query raising, the index query raising, or both working.
SearchBackends ==
    {b \in BackendOutcomes :
        \/ ~b.embeddings /\ b.vector_store /\ ~b.embed_raises /\ ~b.store_raises
        \/ b.embeddings /\ ~b.vector_store /\ ~b.embed_raises /\ ~b.store_raises
        \/ b.embeddings /\ b.vector_store /\ ~(b.embed_raises /\ b.store_raises)}

FilterDict_BlankCategory(language, category) ==
    (IF Truthy(language) THEN {<<"language", language[1]>>} ELSE {})
    \cup (IF category # None THEN {<<"category", category[1]>>} ELSE {})

\* Lines 326-330: filter_dict as the set of its (key, value) items.
FilterDict(language, category) ==
    (IF Truthy(language) THEN {<<"language", language[1]>>} ELSE {})
    \cup (IF Truthy(category) THEN {<<"category", category[1]>>} ELSE {})

\* Line 336: filter_dict if filter_dict else None.
FilterArgument(language, category) ==
    IF FilterDict(language, category) = {} THEN None
    ELSE Some(FilterDict(language, category))

\* The index applies an equality filter to the metadata of its vectors.
Matches(stored, language, category) ==
    {v \in stored :
        \A item \in FilterDict(language, category) : v[item[1]] = item[2]}

\* vector_store.query: the top_k best matches, best first.
Query(stored, language, category, top_k, rank) ==
    LET found == Matches(stored, language, category)
        order == SelectSeq(rank, LAMBDA v : v \in found)
        best == SubSeq(order, 1, IF Len(order) < top_k THEN Len(order) ELSE top_k)
    IN [i \in DOMAIN best |->
           [entry_id |-> best[i].entry_id, language |-> best[i].language,
            category |-> best[i].category, content |-> None]]

Search_Propagates(stored, language, category, top_k, rank, b) ==
    IF ~b.vector_store \/ ~b.embeddings
    THEN [err |-> "none", results |-> <<>>, sent |-> None]
    ELSE IF b.embed_raises
    THEN [err |-> "Exception", results |-> <<>>, sent |-> None]
    ELSE IF b.store_raises
    THEN [err |-> "Exception", results |-> <<>>,
          sent |-> Some([filter |-> FilterArgument(language, category)])]
    ELSE [err |-> "none", results |-> Query(stored, language, category, top_k, rank),
          sent |-> Some([filter |-> FilterArgument(language, category)])]

\* EmbeddingService.search: [] without the backends and on any exception;
\* `sent` is the query the index received, if the call got that far.
Search(stored, language, category, top_k, rank, b) ==
    IF ~b.vector_store \/ ~b.embeddings
    THEN [err |-> "none", results |-> <<>>, sent |-> None]
    ELSE IF b.embed_raises
    THEN [err |-> "none", results |-> <<>>, sent |-> None]
    ELSE IF b.store_raises
    THEN [err |-> "none", results |-> <<>>,
          sent |-> Some([filter |-> FilterArgument(language, category)])]
    ELSE [err |-> "none", results |-> Query(stored, language, category, top_k, rank),
          sent |-> Some([filter |-> FilterArgument(language, category)])]

search(language, category, top_k, rank, b) ==
    /\ last' = [op |-> "search", before |-> None,
                err |-> Search(index, language, category, top_k, rank, b).err,
                ret |-> Some([language |-> language, category |-> category,
                              top_k |-> top_k, backend |-> b,
                              sent |-> Search(index, language, category,
                                              top_k, rank, b).sent,
                              results |-> Search(index, language, category,
                                                 top_k, rank, b).results])]
    /\ UNCHANGED <<now, kbVars, exportVars, exporterVars, cleanupVars>>

\* The entry exists, freshly created with some content.
InitKB ==
    /\ export = None
    /\ now = 0
    /\ worker = None
    /\ last = NoCall
    /\ files = {}
    /\ context = None
    /\ db = None
    /\ table = {}
    /\ entry \in {Some(NewEntry(c)) : c \in ContentInputs}
    /\ index = {}
    /\ processor = None
    /\ runs = NoRuns

NextKB ==
    \/ delete_entry
    \/ \E w \in SaveOutcomes, wh \in SaveOutcomes : process_entry_start(w, wh)
    \/ \E b \in BackendOutcomes, w \in SaveOutcomes, wh \in SaveOutcomes :
          process_entry_finish(b, w, wh)

SpecKB == InitKB /\ [][NextKB]_vars

NextRace ==
    \/ \E i \in Runs : run_start(i)
    \/ \E i \in Runs, b \in BackendOutcomes : run_finish(i, b)

SpecRace == InitKB /\ [][NextRace]_vars

\* A search runs against whatever the index holds at the time.
InitSearch ==
    /\ export = None
    /\ now = 0
    /\ worker = None
    /\ last = NoCall
    /\ files = {}
    /\ context = None
    /\ db = None
    /\ table = {}
    /\ entry = None
    /\ index \in SUBSET KnownVectors
    /\ processor = None
    /\ runs = NoRuns

NextSearch ==
    \E l \in LanguageInputs, c \in CategoryInputs, k \in TopKInputs,
       r \in RankInputs, b \in SearchBackends : search(l, c, k, r, b)

SpecSearch == InitSearch /\ [][NextSearch]_vars

\* ================================================================== claims
AllowedEdges ==
    {<<PENDING, PROCESSING>>, <<PROCESSING, COMPLETED>>,
     <<PROCESSING, FAILED>>, <<FAILED, PENDING>>}

\* C1: the persisted status of a job changes only along PENDING->PROCESSING,
\* PROCESSING->COMPLETED, PROCESSING->FAILED and FAILED->PENDING, and a
\* FAILED job leaves FAILED only through retry_export.
C1_StatusEdges ==
    [][(export # None /\ export' # None
        /\ export'[1].status # export[1].status)
       => /\ <<export[1].status, export'[1].status>> \in AllowedEdges
          /\ (export[1].status = FAILED => last'.op = "retry_export")]_vars

\* C2: in every persisted state of the job, completed_at is non-null if and
\* only if the status is COMPLETED.
C2_CompletedAtIffCompleted ==
    export # None =>
        ((export[1].completed_at # None) <=> (export[1].status = COMPLETED))

\* A job that update_progress moved into COMPLETED carries a completed_at.
C2_Witness ==
    /\ last.op = "update_progress"
    /\ last.before[1].status # COMPLETED
    /\ export[1].status = COMPLETED
    /\ export[1].completed_at # None

\* C3: retry_export on a job that is not FAILED raises the not-retryable
\* error and leaves every persisted field of the job unchanged.
C3_RetryNotFailedRejected ==
    (last.op = "retry_export" /\ last.before[1].status # FAILED)
        => (last.err = "not_retryable" /\ export = last.before)

\* Scenario E: retry of a COMPLETED job that carries a file.
C3_Witness ==
    /\ last.op = "retry_export"
    /\ last.before[1].status = COMPLETED
    /\ last.before[1].file_path # None
    /\ last.err = "not_retryable"

\* C4: retry_export on a FAILED job leaves it PENDING with progress 0 and
\* an empty error message, whatever the failed run left behind.
C4_RetryResets ==
    (last.op = "retry_export" /\ last.before[1].status = FAILED)
        => /\ export[1].status = PENDING
           /\ export[1].progress_percentage = 0
           /\ export[1].error_message = ""

\* A retry of a job that failed at progress 10 with an error message.
C4_Witness ==
    /\ last.op = "retry_export"
    /\ last.before[1].status = FAILED
    /\ last.before[1].progress_percentage = 10
    /\ last.before[1].error_message = "collector failed"
    /\ export[1].status = PENDING

C6_RunSuccess ==
    (last.op = "run_export" /\ ~last.ret[1].raised)
        => /\ export[1].status = COMPLETED
           /\ export[1].progress_percentage = 100
           /\ export[1].file_path = Some(last.ret[1].file_path)
           /\ export[1].file_size = Some(last.ret[1].file_size)
           /\ export[1].completed_at # None

\* A successful run of a two-data-type CSV export (a zip archive).
C6_Witness ==
    /\ last.op = "run_export"
    /\ ~last.ret[1].raised
    /\ export[1].status = COMPLETED
    /\ export[1].file_path = Some([stem |-> "export_id", ext |-> "zip"])

\* C7: when the exporter raises, the job ends FAILED with the exception's
\* text as error message, progress still 10, and file_path and file_size as
\* they were before the run.
C7_RunFailure ==
    (last.op = "run_export" /\ last.ret[1].raised)
        => /\ export[1].status = FAILED
           /\ export[1].error_message = last.ret[1].text
           /\ export[1].progress_percentage = 10
           /\ export[1].file_path = last.before[1].file_path
           /\ export[1].file_size = last.before[1].file_size

\* A failed run of a job that entered the run with progress 100 and a file.
C7_Witness ==
    /\ last.op = "run_export"
    /\ last.ret[1].raised
    /\ last.ret[1].text = "collector failed"
    /\ last.before[1].progress_percentage = 100
    /\ last.before[1].file_path # None
    /\ export[1].status = FAILED

\* C8: across create_export, run_export and retry_export, file_path and
\* file_size are populated only when the status is COMPLETED.
C8_FileOnlyWhenCompleted ==
    (export # None /\ export[1].status # COMPLETED)
        => (export[1].file_path = None /\ export[1].file_size = None)

\* C9: across create_export, run_export and retry_export, error_message is
\* non-empty only when the status is FAILED.
C9_ErrorOnlyWhenFailed ==
    (export # None /\ export[1].status # FAILED)
        => export[1].error_message = ""

\* C10: get_download_info on a PENDING, PROCESSING or FAILED job raises the
\* not-ready error and returns nothing, whatever file_path and file_size are.
C10_DownloadNotReady ==
    (last.op = "get_download_info"
     /\ last.before[1].status \in {PENDING, PROCESSING, FAILED})
        => (last.err = "not_ready" /\ last.ret = None)

\* A FAILED job that still carries a file path is refused.
C10_Witness ==
    /\ last.op = "get_download_info"
    /\ last.before[1].status = FAILED
    /\ last.before[1].file_path # None
    /\ last.err = "not_ready"

\* C11: get_download_info on a COMPLETED job whose non-empty file_path names
\* no file in storage raises the file-missing error and returns no download
\* URL.
C11_DownloadFileMissing ==
    (/\ last.op = "get_download_info"
     /\ last.before[1].status = COMPLETED
     /\ last.before[1].file_path # None
     /\ last.before[1].file_path[1] \notin files)
        => (last.err = "file_missing" /\ last.ret = None)

\* C12: create_export with date_range_days outside [1, 365] raises the
\* validation error and no job exists afterwards; with date_range_days inside
\* [1, 365] it returns, and the one job that exists is PENDING and holds the
\* requested user, data types, format, date range and personal-data flag.
C12_CreateValidatesDateRange ==
    last.op = "create_export" =>
        IF last.ret[1].date_range_days < 1 \/ last.ret[1].date_range_days > 365
        THEN last.err = "invalid_date_range" /\ export = None
        ELSE /\ last.err = "none"
             /\ export # None
             /\ export[1].status = PENDING
             /\ export[1].created_by = Some(last.ret[1].user)
             /\ export[1].data_types = last.ret[1].data_types
             /\ export[1].format = last.ret[1].format
             /\ export[1].date_range_days = last.ret[1].date_range_days
             /\ export[1].include_personal_data = last.ret[1].include_personal_data

\* A job created with the largest accepted date range.
C12_Witness ==
    /\ last.op = "create_export"
    /\ last.ret[1].date_range_days = 365
    /\ last.err = "none"
    /\ export # None
    /\ export[1].status = PENDING
    /\ export[1].date_range_days = 365

\* C13: no job exists whose data_types is empty or holds a value outside
\* conversations, knowledge_base, escalations and analytics.
C13_DataTypesValid ==
    export # None =>
        /\ export[1].data_types # <<>>
        /\ \A i \in DOMAIN export[1].data_types :
               export[1].data_types[i] \in
                   {"conversations", "knowledge_base", "escalations", "analytics"}

\* C14: a csv export that returns has written, for exactly one requested
\* data type, a single .csv file, and for N > 1 requested data types a .zip
\* with exactly N entries, one named {data_type}.csv for each requested data
\* type, whether or not the data type has records.
C14_CsvShape ==
    (last.op = "export" /\ last.err = "none" /\ context[1].format = "csv")
        => LET requested == Range(context[1].data_types)
               out == last.ret[1]
               names == {out.entries[i].name : i \in DOMAIN out.entries}
           IN /\ Cardinality(requested) = 1
                    => /\ out.file_path.ext = "csv"
                       /\ Len(out.entries) = 1
                       /\ out.file_path.stem \in requested
              /\ Cardinality(requested) > 1
                    => /\ out.file_path.ext = "zip"
                       /\ Len(out.entries) = Cardinality(requested)
                       /\ names = {[stem |-> t, ext |-> "csv"] : t \in requested}

\* A three-type csv export whose knowledge_base table is empty: a zip of
\* three entries, the empty one among them.
C14_Witness ==
    /\ last.op = "export"
    /\ last.err = "none"
    /\ context[1].format = "csv"
    /\ context[1].data_types = <<"conversations", "knowledge_base", "escalations">>
    /\ db[1].knowledge_base = <<>>
    /\ last.ret[1].file_path.ext = "zip"
    /\ Len(last.ret[1].entries) = 3
    /\ last.ret[1].entries[2].header = {"empty"}

\* C16: with include_personal_data false no collected record has one of the
\* keys user_email, created_by_email, customer_name, customer_email; a record
\* has such a key only when include_personal_data is true.
C16_PersonalFieldsOmitted ==
    last.op = "export"
        => \A i \in DOMAIN last.ret[1].data :
             \A j \in DOMAIN last.ret[1].data[i].rows :
                (DOMAIN last.ret[1].data[i].rows[j]
                    \cap {"user_email", "created_by_email",
                          "customer_name", "customer_email"}) # {}
                    => context[1].include_personal_data

\* An export without personal data over owned conversations, an authored
\* entry and an escalation, all four data types collected.
C16_Witness ==
    /\ last.op = "export"
    /\ ~context[1].include_personal_data
    /\ Len(last.ret[1].data) = 4
    /\ db[1].conversations = <<Owned>>
    /\ db[1].knowledge_base # <<>>
    /\ db[1].escalations # <<>>
    /\ "user_email" \notin DOMAIN last.ret[1].data[1].rows[1]

\* C15: cleanup_old_exports(days) deletes exactly the rows that are
\* COMPLETED with completed_at earlier than now minus days, returns their
\* number, and leaves every other row (PENDING, PROCESSING, FAILED of any
\* age, COMPLETED inside the window) in the table unchanged.
C15_CleanupExact ==
    last.op = "cleanup_old_exports"
        => LET before == last.before[1]
               old == {r \in before :
                          /\ r.status = COMPLETED
                          /\ r.completed_at # None
                          /\ r.completed_at[1] < last.ret[1].now - last.ret[1].days}
           IN /\ table = before \ old
              /\ last.ret[1].count = Cardinality(old)

\* A sweep that deleted a job completed two days before and kept a job
\* completed exactly one day before, the length of the window.
C15_Witness ==
    /\ last.op = "cleanup_old_exports"
    /\ last.ret[1].days = 1
    /\ last.ret[1].count = 1
    /\ \E r \in last.before[1] :
          /\ r.status = COMPLETED
          /\ r.completed_at = Some(last.ret[1].now - 2)
          /\ r \notin table
    /\ \E r \in table :
          /\ r.status = COMPLETED
          /\ r.completed_at = Some(last.ret[1].now - 1)

\* C17: with both backends available and working, a process_entry run on an
\* entry stores ["{id}_en"] when only the English pair is complete,
\* ["{id}_sv"] when only the Swedish pair is, both ids in that order when
\* both are, and with neither pair complete fails with the no-content error
\* and leaves the vector ids as they were.
C17_VectorIdsPerLanguage ==
    (/\ last.op = "process_entry"
     /\ last.before # None
     /\ entry # None
     /\ ~last.ret[1].fault
     /\ last.ret[1].backend # None
     /\ last.ret[1].backend[1] = [embeddings |-> TRUE, vector_store |-> TRUE,
                                  embed_raises |-> FALSE, store_raises |-> FALSE])
        => LET b == last.before[1]
               en == /\ b.issue_title_en \notin {None, Some("")}
                     /\ b.solution_en \notin {None, Some("")}
               sv == /\ b.issue_title_sv \notin {None, Some("")}
                     /\ b.solution_sv \notin {None, Some("")}
               ids == entry[1].pinecone_vector_ids
               id_en == [entry_id |-> "entry_id", language |-> "en"]
               id_sv == [entry_id |-> "entry_id", language |-> "sv"]
           IN /\ (en /\ ~sv) => ids = <<id_en>>
              /\ (~en /\ sv) => ids = <<id_sv>>
              /\ (en /\ sv) => ids = <<id_en, id_sv>>
              /\ (~en /\ ~sv)
                    => /\ ~last.ret[1].result[1].success
                       /\ last.ret[1].result[1].error_message
                              = Some("No content to process")
                       /\ ids = b.pinecone_vector_ids

\* A second run on an entry with both pairs, which already carried ids.
C17_Witness ==
    /\ last.op = "process_entry"
    /\ last.before # None
    /\ last.before[1].embedding_status = COMPLETED
    /\ ~last.ret[1].fault
    /\ last.ret[1].result[1].success
    /\ entry # None
    /\ Len(entry[1].pinecone_vector_ids) = 2
    /\ entry[1].embedding_status = COMPLETED

\* C18: in every process_entry run on an existing entry, each persisted write
\* of COMPLETED or FAILED comes after a persisted write of PROCESSING by the
\* same run, also when a status write or a backend call fails.
C18_ProcessingFirst ==
    (last.op = "process_entry" /\ last.before # None)
        => \A i \in DOMAIN last.ret[1].writes :
              last.ret[1].writes[i] \in {COMPLETED, FAILED}
                  => \E j \in 1..(i - 1) : last.ret[1].writes[j] = PROCESSING

\* C19: process_entry never raises; a run that did not succeed returns
\* success = false with no vector ids, and leaves an existing entry FAILED.
C19_NeverRaises ==
    last.op = "process_entry"
        => /\ last.err = "none"
           /\ last.ret[1].result # None
           /\ ~last.ret[1].result[1].success
                 => /\ last.ret[1].result[1].vector_ids = <<>>
                    /\ (last.before # None /\ entry # None)
                          => entry[1].embedding_status = FAILED

\* C20: search never raises; it returns the empty list when a backend is
\* not configured, when embedding the query or querying the index raises,
\* and when no stored vector satisfies the filter.
C20_SearchDegrades ==
    last.op = "search"
        => /\ last.err = "none"
           /\ (\/ ~last.ret[1].backend.embeddings
               \/ ~last.ret[1].backend.vector_store
               \/ last.ret[1].backend.embed_raises
               \/ last.ret[1].backend.store_raises)
                 => last.ret[1].results = <<>>
           /\ (\A v \in index :
                  \/ (last.ret[1].language \notin {None, Some("")}
                      /\ v.language # last.ret[1].language[1])
                  \/ (last.ret[1].category \notin {None, Some("")}
                      /\ v.category # last.ret[1].category[1]))
                 => last.ret[1].results = <<>>

\* A search over a populated index whose query call raised.
C20_Witness ==
    /\ last.op = "search"
    /\ index # {}
    /\ last.ret[1].backend.embeddings
    /\ last.ret[1].backend.vector_store
    /\ last.ret[1].backend.store_raises
    /\ last.ret[1].language = None
    /\ last.ret[1].results = <<>>
    /\ last.err = "none"

\* C21: the filter search hands to the index holds exactly the keys among
\* language and category for which a value was given, and is absent when
\* neither was given; a vector is never left out because of an axis that
\* was not given, and with both given every result satisfies both.
C21_FilterExact ==
    (last.op = "search" /\ last.ret[1].sent # None)
        => LET language == last.ret[1].language
               category == last.ret[1].category
               given == (IF language \notin {None, Some("")}
                         THEN {<<"language", language[1]>>} ELSE {})
                        \cup (IF category \notin {None, Some("")}
                              THEN {<<"category", category[1]>>} ELSE {})
               wanted == {v \in index :
                            /\ language \notin {None, Some("")}
                                  => v.language = language[1]
                            /\ category \notin {None, Some("")}
                                  => v.category = category[1]}
               results == last.ret[1].results
               found == {[entry_id |-> v.entry_id, language |-> v.language,
                          category |-> v.category, content |-> None] :
                            v \in wanted}
           IN /\ last.ret[1].sent[1].filter
                    = (IF given = {} THEN None ELSE Some(given))
              /\ ~last.ret[1].backend.store_raises
                    => /\ \A i \in DOMAIN results : results[i] \in found
                       /\ Len(results) =
                            (IF Cardinality(wanted) < last.ret[1].top_k
                             THEN Cardinality(wanted) ELSE last.ret[1].top_k)

\* A search by language alone over an index that holds vectors of two
\* categories: both categories are among the results.
C21_Witness ==
    /\ last.op = "search"
    /\ last.ret[1].language = Some("en")
    /\ last.ret[1].category = None
    /\ last.ret[1].sent = Some([filter |-> Some({<<"language", "en">>})])
    /\ Len(last.ret[1].results) = 2
    /\ \E i \in DOMAIN last.ret[1].results :
          last.ret[1].results[i].category = "Other"

\* C27: a CSV export with include_personal_data = true never fails in the
\* writer: every record of a data set carries only fields named in the
\* header taken from the first record of that data set.
C27_CsvRowsFitHeader ==
    (/\ last.op = "export"
     /\ context[1].format = "csv"
     /\ context[1].include_personal_data)
        => /\ last.err = "none"
           /\ \A i \in DOMAIN last.ret[1].data :
                 \A j \in DOMAIN last.ret[1].data[i].rows :
                     DOMAIN last.ret[1].data[i].rows[j]
                         \subseteq DOMAIN last.ret[1].data[i].rows[1]

\* C28: whenever retry_export raises, the persisted job is unchanged: its
\* status, progress_percentage and error_message are those it had before
\* the call.
C28_RetryAllOrNothing ==
    (last.op = "retry_export" /\ last.err # "none")
        => /\ export[1].status = last.before[1].status
           /\ export[1].progress_percentage = last.before[1].progress_percentage
           /\ export[1].error_message = last.before[1].error_message

\* C26: once an entry has been deleted, the index holds no vector whose
\* metadata entry_id is that entry: the deletion removed the vectors
\* listed in the entry's pinecone_vector_ids.
C26_DeleteRemovesVectors ==
    (last.op = "delete_entry" /\ processor = None)
        => \A v \in index :
              v.id \notin Range(last.before[1].pinecone_vector_ids)

\* C25: when a collector raises during run_export, for any format and any
\* number of requested data types, the job ends FAILED and no file the run
\* wrote is left in the job's export directory.
C25_NoPartialFile ==
    (/\ last.op = "run_export"
     /\ last.ret[1].raised
     /\ last.ret[1].stage = "collect")
        => /\ export[1].status = FAILED
           /\ last.ret[1].written \cap files = {}

\* C23: pinecone_vector_ids and processed_at change only in the write that
\* sets embedding_status = COMPLETED; that write is made exactly when at
\* least one language was embedded and the upsert succeeded; a run that
\* ends FAILED leaves pinecone_vector_ids and processed_at as they were
\* before the run.
C23_IdsWithCompleted ==
    (last.op = "process_entry" /\ last.before # None /\ entry # None)
        => LET old == last.before[1]
               run == last.ret[1]
               completed == /\ run.writes # <<>>
                            /\ run.writes[Len(run.writes)] = COMPLETED
               stored == /\ run.backend # None
                         /\ run.backend[1].embeddings
                         /\ run.backend[1].vector_store
                         /\ ~run.backend[1].embed_raises
                         /\ ~run.backend[1].store_raises
                         /\ Languages(old) # <<>>
           IN /\ (\/ entry[1].pinecone_vector_ids # old.pinecone_vector_ids
                   \/ entry[1].processed_at # old.processed_at)
                    => completed
              /\ completed
                    => /\ stored
                       /\ entry[1].embedding_status = COMPLETED
                       /\ entry[1].pinecone_vector_ids = run.result[1].vector_ids
                       /\ entry[1].processed_at = Some(now)
              /\ (stored /\ ~run.fault) => completed
              /\ entry[1].embedding_status = FAILED
                    => /\ entry[1].pinecone_vector_ids = old.pinecone_vector_ids
                       /\ entry[1].processed_at = old.processed_at

\* A run on an entry that an earlier run completed ends FAILED because the
\* upsert raised: the vector ids of the earlier run are still listed.
C23_Witness ==
    /\ last.op = "process_entry"
    /\ entry # None
    /\ entry[1].embedding_status = FAILED
    /\ last.ret[1].backend # None
    /\ last.ret[1].backend[1].store_raises
    /\ ~last.ret[1].fault
    /\ entry[1].pinecone_vector_ids # <<>>
    /\ entry[1].processed_at # None

\* C24: when two process_entry runs on one entry overlap and both have
\* finished, embedding_status, pinecone_vector_ids and processed_at of the
\* entry are all those of the run whose final write came last.
C24_LastWriterWins ==
    (/\ last.op = "run_finish"
     /\ \A i \in Runs : runs[i].phase = "done" /\ runs[i].overlapped)
        => LET winner == runs[last.ret[1].run].entry[1]
           IN /\ entry[1].embedding_status = winner.embedding_status
              /\ entry[1].pinecone_vector_ids = winner.pinecone_vector_ids
              /\ entry[1].processed_at = winner.processed_at

\* C22: createEntry and updateEntry accept a request exactly when, on the
\* submitted fields merged with the stored entry, some language has a
\* title and a solution that are both non-empty and no language has only
\* one of the two; a rejected request changes neither the entry nor the
\* index and runs no embedding.  Whitespace alone counts as empty.
C22_AcceptsCompletePairs ==
    [][last'.op \in {"createEntry", "updateEntry"}
        => LET data == last'.ret[1].data
               merged(k) == IF data[k] # None THEN data[k][1]
                            ELSE IF entry = None THEN None
                            ELSE entry[1][k]
               filled(k) == merged(k) # None /\ merged(k)[1] \notin {"", " "}
               complete == \/ filled("issue_title_en") /\ filled("solution_en")
                           \/ filled("issue_title_sv") /\ filled("solution_sv")
               half == \/ filled("issue_title_en") # filled("solution_en")
                       \/ filled("issue_title_sv") # filled("solution_sv")
           IN /\ (last'.err = "none") = (complete /\ ~half)
              /\ last'.err # "none"
                    => /\ entry' = entry
                       /\ index' = index
                       /\ ~last'.ret[1].ran]_vars

\* An update that submits a title alone for a language stored without a
\* solution is rejected and the entry is as it was.
C22_Witness ==
    /\ last.op = "updateEntry"
    /\ last.err = "ValidationError"
    /\ last.ret[1].data.issue_title_en = Some(Some("title"))
    /\ last.ret[1].data.solution_en = None
    /\ ~Truthy(last.before[1].solution_en)
    /\ Truthy(last.before[1].solution_sv)
    /\ entry = last.before

\* C29: after an accepted createEntry or updateEntry whose embedding run
\* succeeded, pinecone_vector_ids lists exactly the languages the
\* validator counted as complete, English first; a language submitted as
\* whitespace alone has no id.
C29_EmbedsValidatedLanguages ==
    (/\ last.op \in {"createEntry", "updateEntry"}
     /\ last.err = "none"
     /\ last.ret[1].ran
     /\ last.ret[1].result[1].success)
        => LET data == last.ret[1].data
               merged(k) == IF data[k] # None THEN data[k][1]
                            ELSE IF last.before = None THEN None
                            ELSE last.before[1][k]
               filled(k) == merged(k) # None /\ merged(k)[1] \notin {"", " "}
               counted == (IF filled("issue_title_en") /\ filled("solution_en")
                           THEN <<"en">> ELSE <<>>)
                          \o (IF filled("issue_title_sv") /\ filled("solution_sv")
                              THEN <<"sv">> ELSE <<>>)
           IN /\ entry[1].pinecone_vector_ids
                    = [i \in DOMAIN counted |-> VectorId(counted[i])]
              /\ \A l \in {"en", "sv"} :
                    (\E v \in index : v.id = VectorId(l))
                        => \/ \E i \in DOMAIN counted : counted[i] = l
                           \/ \E v \in last.ret[1].index : v.id = VectorId(l)

\* An entry created with an English pair of whitespace and a complete
\* Swedish pair is embedded in Swedish only.
C29_Witness ==
    /\ last.op = "createEntry"
    /\ last.err = "none"
    /\ last.ret[1].data.issue_title_en = Some(Some(" "))
    /\ last.ret[1].data.solution_en = Some(Some(" "))
    /\ last.ret[1].result[1].success
    /\ entry[1].pinecone_vector_ids = <<VectorId("sv")>>
    /\ \A v \in index : v.language = "sv"

\* C30: every vector listed in pinecone_vector_ids of an entry whose
\* embedding completed carries, as index metadata, the category, status
\* and tags the entry has now.
C30_MetadataCurrent ==
    (entry # None /\ entry[1].embedding_status = COMPLETED)
        => \A v \in index :
              v.id \in Range(entry[1].pinecone_vector_ids)
                  => /\ v.category = entry[1].category
                     /\ v.status = entry[1].status
                     /\ v.tags = entry[1].tags
====
